---- MODULE Spec2Model ----
(***************************************************************************)
(* Model of React+RAG.py: configuration loading, the three tool adapters   *)
(* (get_current_datetime, get_wikipedia_summary, search_company_docs), the *)
(* agent executor as the script uses it, and the interactive loop main().  *)
(*                                                                         *)
(* Text is a sequence of atoms (each atom a non-empty piece of a string);  *)
(* an input line is a sequence of characters.                              *)
(***************************************************************************)
EXTENDS Integers, Sequences, FiniteSets, TLC

\* ------------------------------------------------------------------ bounds
MaxTurns == 2        \* input() calls that return a line, per run
MaxToolCalls == 1    \* tool calls the executor makes within one turn
MaxEnvChanges == 1   \* changes of os.environ after start-up, per run

\* ------------------------------------------------------- Python values
Absent == "<absent>"             \* the key is not in os.environ
None == [type |-> "NoneType", text |-> <<>>]
Str(t) == [type |-> "str", text |-> t]

Ret(v) == [kind |-> "return", value |-> v, exc |-> "-", msg |-> <<>>]
Raise(c, m) == [kind |-> "raise", value |-> None, exc |-> c, msg |-> m]

\* class -> direct base class, as far up as Exception
Base ==
  [ DisambiguationError |-> "WikipediaException",
    PageError           |-> "WikipediaException",
    HTTPTimeoutError    |-> "WikipediaException",
    WikipediaException  |-> "Exception",
    ConnectionError     |-> "Exception",
    KeyError            |-> "LookupError",
    IndexError          |-> "LookupError",
    LookupError         |-> "Exception",
    OpenAIError         |-> "Exception",
    APIConnectionError  |-> "OpenAIError",
    AuthenticationError |-> "OpenAIError",
    Exception           |-> "Exception" ]

RECURSIVE IsInstance(_, _)
IsInstance(c, cls) ==
  IF c = cls THEN TRUE
  ELSE IF Base[c] = c THEN FALSE
  ELSE IsInstance(Base[c], cls)

\* str(e) / "{e}" of a raised exception
StrOfExc(r) == r.msg

StartsWith(t, p) == Len(t) >= Len(p) /\ SubSeq(t, 1, Len(p)) = p

\* ------------------------------------------------ str.lower() on a line
QuitWord == <<"q", "u", "i", "t">>

UpperOf == [c \in {"q", "u", "i", "t", "h"} |->
              CASE c = "q" -> "Q" [] c = "u" -> "U" [] c = "i" -> "I"
                [] c = "t" -> "T" [] c = "h" -> "H"]

\* "Idot" is U+0130, whose lower-case form is two code points: i + U+0307
LowerChar(c) ==
  CASE c = "Q" -> <<"q">>
    [] c = "U" -> <<"u">>
    [] c = "I" -> <<"i">>
    [] c = "T" -> <<"t">>
    [] c = "H" -> <<"h">>
    [] c = "Idot" -> <<"i", "cdot">>
    [] OTHER -> <<c>>

RECURSIVE Lower(_)
Lower(s) == IF s = <<>> THEN <<>> ELSE LowerChar(Head(s)) \o Lower(Tail(s))

\* every mix of letter casing of "quit"
QuitVariants ==
  { [i \in 1..Len(QuitWord) |->
       IF i \in S THEN UpperOf[QuitWord[i]] ELSE QuitWord[i]]
    : S \in SUBSET (1..Len(QuitWord)) }

OtherLines ==
  { <<>>,
    <<"q", "u", "i", "t", " ">>,
    <<" ", "Q", "U", "I", "T">>,
    <<"q", "u", "i">>,
    <<"q", "u", "Idot", "t">>,
    <<"H", "i">> }

Lines == QuitVariants \cup OtherLines
FewLines == { <<"Q", "u", "I", "t">>, <<"H", "i">> }

\* line 148: query.lower() == "quit"
IsQuitNoLower(query) == query = QuitWord
IsQuit(query) == Lower(query) = QuitWord

\* ------------------------------------------------------- configuration
OaiVars == {"AZURE_OAI_KEY", "AZURE_OAI_DEPLOYMENT", "AZURE_OAI_ENDPOINT"}
SearchVars == {"AZURE_SEARCH_ENDPOINT", "AZURE_SEARCH_INDEX", "AZURE_SEARCH_KEY"}
EnvVars == OaiVars \cup SearchVars
EnvValues == {"v1", "v2"}

\* os.getenv(name): None when the name is absent
PyNone == "None"
getenv(env, name) == IF env[name] = Absent THEN PyNone ELSE env[name]

\* lines 26-29
LoadConfig(env) ==
  [ openai_api_key |-> getenv(env, "AZURE_OAI_KEY"),
    deployment     |-> getenv(env, "AZURE_OAI_DEPLOYMENT"),
    endpoint       |-> getenv(env, "AZURE_OAI_ENDPOINT"),
    api_version    |-> "2024-02-01" ]

\* os.environ[name]: KeyError(name) when the name is absent
EnvironGet(env, name) ==
  IF env[name] = Absent
    THEN Raise("KeyError", <<"'", name, "'">>)
    ELSE Ret(env[name])

\* ------------------------------------------------------------ tools
\* lines 34-35: datetime.now().isoformat(); the microsecond part is
\* omitted when it is zero
Clock == { [time |-> "12:00:00", microsecond |-> us] : us \in {"0", "250000"} }

isoformat(now) ==
  <<"2026-01-01", "T", now.time>>
    \o (IF now.microsecond = "0" THEN <<>> ELSE <<".", now.microsecond>>)

get_current_datetime(args, now) == Ret(Str(isoformat(now)))

\* what wikipedia.summary(query) does: returns the summary or raises
WikiOutcomes ==
  { Ret(Str(<<"summary">>)),
    Raise("DisambiguationError", <<"may refer to">>),
    Raise("PageError", <<"does not match any pages">>),
    Raise("HTTPTimeoutError", <<"timed out">>),
    Raise("ConnectionError", <<>>) }

\* the catch-all clause written first
get_wikipedia_summary_catchall_first(query, summary) ==
  IF summary.kind = "return" THEN summary
  ELSE IF IsInstance(summary.exc, "Exception")
    THEN Ret(Str(StrOfExc(summary)))
  ELSE summary

\* the two library exceptions handled, no catch-all clause
get_wikipedia_summary_no_catchall(query, summary) ==
  IF summary.kind = "return" THEN summary
  ELSE IF IsInstance(summary.exc, "DisambiguationError")
    THEN Ret(Str(<<"Disambiguation error", ": ">> \o StrOfExc(summary)))
  ELSE IF IsInstance(summary.exc, "PageError")
    THEN Ret(Str(<<"Page not found.">>))
  ELSE summary

\* lines 37-45, except clauses tried in the order written
get_wikipedia_summary(query, summary) ==
  IF summary.kind = "return" THEN summary
  ELSE IF IsInstance(summary.exc, "DisambiguationError")
    THEN Ret(Str(<<"Disambiguation error", ": ">> \o StrOfExc(summary)))
  ELSE IF IsInstance(summary.exc, "PageError")
    THEN Ret(Str(<<"Page not found.">>))
  ELSE IF IsInstance(summary.exc, "Exception")
    THEN Ret(Str(StrOfExc(summary)))
  ELSE summary

\* openai.AzureOpenAI(...) at lines 49-53: a client or an error
ClientOutcomes == { Ret(Str(<<"client">>)), Raise("OpenAIError", <<"credentials">>) }

\* client.chat.completions.create(...) at lines 55-73: a completion (the
\* list of its choices' message contents) or an error
Completion(cs) == [kind |-> "return", choices |-> cs, exc |-> "-", msg |-> <<>>]
CreateError(c, m) == [kind |-> "raise", choices |-> <<>>, exc |-> c, msg |-> m]
NotReached == [kind |-> "not reached", choices |-> <<>>, exc |-> "-", msg |-> <<>>]

CreateOutcomes ==
  { Completion(<<Str(<<"answer">>)>>),
    Completion(<<None>>),
    Completion(<<>>),
    CreateError("APIConnectionError", <<"Connection error.">>),
    CreateError("AuthenticationError", <<"401">>) }

\* lines 63-67, in evaluation order
SearchKeyOrder == <<"AZURE_SEARCH_ENDPOINT", "AZURE_SEARCH_INDEX", "AZURE_SEARCH_KEY">>

AbsentAt(env) == { i \in 1..Len(SearchKeyOrder) : env[SearchKeyOrder[i]] = Absent }
FirstAbsent(env) ==
  SearchKeyOrder[CHOOSE i \in AbsentAt(env) : \A j \in AbsentAt(env) : i <= j]

SearchParameters(env) ==
  [ endpoint   |-> env["AZURE_SEARCH_ENDPOINT"],
    index_name |-> env["AZURE_SEARCH_INDEX"],
    key        |-> env["AZURE_SEARCH_KEY"] ]

NoParameters == [endpoint |-> "-", index_name |-> "-", key |-> "-"]
NoRequest ==
  [ sent |-> FALSE, azure_endpoint |-> "-", api_key |-> "-", api_version |-> "-",
    model |-> "-", content |-> "-", parameters |-> NoParameters ]

\* the create() call is reached when the client was built and the three
\* os.environ lookups succeeded
ReachesCreate(env, client) == client.kind = "return" /\ AbsentAt(env) = {}

\* the request of lines 55-73
SearchRequestGlobalEndpoint(query, env, conf, client) ==
  IF ReachesCreate(env, client)
    THEN [ sent |-> TRUE,
           azure_endpoint |-> conf.endpoint,
           api_key |-> conf.openai_api_key,
           api_version |-> conf.api_version,
           model |-> conf.deployment,
           content |-> query,
           parameters |-> [SearchParameters(env) EXCEPT !.endpoint = conf.endpoint] ]
    ELSE NoRequest
SearchRequest(query, env, conf, client) ==
  IF ReachesCreate(env, client)
    THEN [ sent |-> TRUE,
           azure_endpoint |-> conf.endpoint,
           api_key |-> conf.openai_api_key,
           api_version |-> conf.api_version,
           model |-> conf.deployment,
           content |-> query,
           parameters |-> SearchParameters(env) ]
    ELSE NoRequest

\* the try body, lines 49-75
SearchBody(query, env, conf, client, create) ==
  IF client.kind = "raise" THEN client
  ELSE IF AbsentAt(env) # {} THEN EnvironGet(env, FirstAbsent(env))
  ELSE IF create.kind = "raise" THEN Raise(create.exc, create.msg)
  ELSE IF Len(create.choices) = 0
    THEN Raise("IndexError", <<"list index out of range">>)
  ELSE Ret(create.choices[1])

\* no try around the body
search_company_docs_uncaught(query, env, conf, client, create) ==
  SearchBody(query, env, conf, client, create)

\* a handler for the client library's errors only
search_company_docs_narrow(query, env, conf, client, create) ==
  LET body == SearchBody(query, env, conf, client, create)
  IN IF body.kind = "raise" /\ IsInstance(body.exc, "OpenAIError")
       THEN Ret(Str(<<"Search error:", " ">> \o StrOfExc(body)))
       ELSE body

\* lines 47-78
search_company_docs(query, env, conf, client, create) ==
  LET body == SearchBody(query, env, conf, client, create)
  IN IF body.kind = "raise" /\ IsInstance(body.exc, "Exception")
       THEN Ret(Str(<<"Search error:", " ">> \o StrOfExc(body)))
       ELSE body

\* ------------------------------------------------------------ state
VARIABLES
  pc,          \* where the script is: "assemble" (lines 102-139), "await"
               \* (line 147), "invoking" (suspended at line 150), "print"
               \* (line 151), "terminated"
  exitCode,    \* "none" while running, then "success" or "failure"
  cause,       \* what ended the process
  environ,     \* os.environ after load_dotenv(): name -> value or Absent
  config,      \* the module globals of lines 26-29
  response,    \* the local of line 150
  linesRead,   \* every line input() has returned, in order
  execInputs,  \* the "input" of every agent_executor.ainvoke call, in order
  returned,    \* the "output" of every response ainvoke returned, in order
  printedLog,  \* what line 151 printed after the banner, in order
  inFlight,    \* ainvoke calls started and not yet completed
  raisedAt,    \* number of lines read when ainvoke raised, 0 if it has not
  toolCalls,   \* tool calls made in the current turn
  lastCall,    \* the most recent tool call of the current turn
  prevRequest, \* the request of the search call before the most recent one
  envChanges   \* number of changes made to os.environ since start-up

vars ==
  << pc, exitCode, cause, environ, config, response, linesRead, execInputs,
     returned, printedLog, inFlight, raisedAt, toolCalls, lastCall,
     prevRequest, envChanges >>

loopVars == << response, linesRead, execInputs, returned, printedLog, inFlight, raisedAt >>
toolVars == << toolCalls, lastCall, prevRequest >>

Queries == {"q1", "q2"}
Outputs == { <<"o1">>, <<"o2">> }

NoSearchEnv == [k \in SearchVars |-> "-"]
NoResponse == [input |-> <<"-">>, output |-> <<"-">>]
NoCall ==
  [ tool |-> "-", query |-> "-", external |-> Ret(None), create |-> NotReached,
    env |-> NoSearchEnv, result |-> Ret(None), request |-> NoRequest ]

Environments == [EnvVars -> {Absent, "v1"}]
FullEnvironment == [k \in EnvVars |-> "v1"]

InitWith(env) ==
  /\ environ = env
  /\ config = LoadConfig(env)
  /\ pc = "assemble"
  /\ exitCode = "none"
  /\ cause = "none"
  /\ response = NoResponse
  /\ linesRead = <<>>
  /\ execInputs = <<>>
  /\ returned = <<>>
  /\ printedLog = <<>>
  /\ inFlight = 0
  /\ raisedAt = 0
  /\ toolCalls = 0
  /\ lastCall = NoCall
  /\ prevRequest = NoRequest
  /\ envChanges = 0

\* every setting present
Init == InitWith(FullEnvironment)
\* every setting present or absent
InitAnyEnv == \E env \in Environments : InitWith(env)

\* the process ends: quit returns from main() (exit code 0), an exception
\* leaves through asyncio.run (traceback, exit code 1)
Exit(code, why) ==
  /\ pc' = "terminated"
  /\ exitCode' = code
  /\ cause' = why

\* lines 102-139: hub.pull, AzureChatOpenAI, memory, agent, executor; any of
\* them may raise, and nothing catches it
Assemble(ok) ==
  /\ pc = "assemble"
  /\ IF ok
       THEN pc' = "await" /\ UNCHANGED <<exitCode, cause>>
       ELSE Exit("failure", "assembly")
  /\ UNCHANGED <<environ, config, envChanges>>
  /\ UNCHANGED loopVars
  /\ UNCHANGED toolVars

\* line 150 for a coroutine that is not awaited would leave the loop
\* running; awaited, main() is suspended until ainvoke completes
AfterSubmitNotAwaited == "await"
AfterSubmit == "invoking"

\* lines 147-150: input() returns a line; quit breaks, anything else is
\* submitted to the executor and main() suspends
ReadLine(query) ==
  /\ pc = "await"
  /\ Len(linesRead) < MaxTurns
  /\ linesRead' = Append(linesRead, query)
  /\ IF IsQuit(query)
       THEN /\ Exit("success", "quit")
            /\ UNCHANGED <<execInputs, inFlight, toolVars>>
       ELSE /\ pc' = AfterSubmit
            /\ execInputs' = Append(execInputs, query)
            /\ inFlight' = inFlight + 1
            /\ toolCalls' = 0
            /\ lastCall' = NoCall
            /\ prevRequest' = IF lastCall.request.sent THEN lastCall.request
                                                       ELSE prevRequest
            /\ UNCHANGED <<exitCode, cause>>
  /\ UNCHANGED <<environ, config, envChanges, response, returned, printedLog, raisedAt>>

\* line 147: input() raises EOFError at end of input; nothing catches it
ReadEOF ==
  /\ pc = "await"
  /\ Exit("failure", "input")
  /\ UNCHANGED <<environ, config, envChanges>>
  /\ UNCHANGED loopVars
  /\ UNCHANGED toolVars

\* the record of one tool call
CallRecord(tool, query, external, create, result, request) ==
  [ tool |-> tool, query |-> query, external |-> external, create |-> create,
    env |-> [k \in SearchVars |-> IF tool = "Company Knowledge Base"
                                    THEN environ[k] ELSE "-"],
    result |-> result, request |-> request ]

\* the executor runs a tool (lines 81-97): a returned value is an
\* observation, a raised exception leaves ainvoke
ObserveTool(call) ==
  /\ pc = "invoking"
  /\ toolCalls < MaxToolCalls
  /\ toolCalls' = toolCalls + 1
  /\ lastCall' = call
  /\ prevRequest' = IF lastCall.request.sent THEN lastCall.request ELSE prevRequest
  /\ IF call.result.kind = "raise"
       THEN /\ Exit("failure", "tool")
            /\ inFlight' = inFlight - 1
            /\ raisedAt' = Len(linesRead)
       ELSE UNCHANGED <<pc, exitCode, cause, inFlight, raisedAt>>
  /\ UNCHANGED <<environ, config, envChanges, response, linesRead, execInputs,
                 returned, printedLog>>

CallDateTime(args, now) ==
  ObserveTool(CallRecord("Date Time", "-", Ret(None), NotReached,
                         get_current_datetime(args, now), NoRequest))

CallWikipedia(query, summary) ==
  ObserveTool(CallRecord("Wikipedia", query, summary, NotReached,
                         get_wikipedia_summary(query, summary), NoRequest))

CallSearch(query, client, create) ==
  ObserveTool(CallRecord("Company Knowledge Base", query, client,
                IF ReachesCreate(environ, client) THEN create ELSE NotReached,
                search_company_docs(query, environ, config, client, create),
                SearchRequest(query, environ, config, client)))

\* line 150: ainvoke completes with a response
ExecutorReturn(output) ==
  /\ pc = "invoking"
  /\ response' = [input |-> execInputs[Len(execInputs)], output |-> output]
  /\ returned' = Append(returned, output)
  /\ inFlight' = inFlight - 1
  /\ pc' = "print"
  /\ UNCHANGED <<exitCode, cause, environ, config, envChanges, linesRead,
                 execInputs, printedLog, raisedAt>>
  /\ UNCHANGED toolVars

\* a loop that caught the exception would go on to the next prompt
OnExecutorErrorContinue == pc' = "await" /\ UNCHANGED <<exitCode, cause>>
\* line 150: ainvoke raises; main() has no try, asyncio.run re-raises
OnExecutorError == Exit("failure", "executor")

ExecutorRaise ==
  /\ pc = "invoking"
  /\ OnExecutorError
  /\ inFlight' = inFlight - 1
  /\ raisedAt' = Len(linesRead)
  /\ UNCHANGED <<environ, config, envChanges, response, linesRead, execInputs,
                 returned, printedLog>>
  /\ UNCHANGED toolVars

\* line 151
PrintedInput(resp) == resp.input
Printed(resp) == resp.output

PrintResponse ==
  /\ pc = "print"
  /\ printedLog' = Append(printedLog, Printed(response))
  /\ pc' = "await"
  /\ UNCHANGED <<exitCode, cause, environ, config, envChanges, response,
                 linesRead, execInputs, returned, inFlight, raisedAt>>
  /\ UNCHANGED toolVars

\* code running in the process during a turn sets or deletes a variable of
\* os.environ
ChangeEnviron(name, value) ==
  /\ pc = "invoking"
  /\ envChanges < MaxEnvChanges
  /\ environ[name] # value
  /\ environ' = [environ EXCEPT ![name] = value]
  /\ envChanges' = envChanges + 1
  /\ UNCHANGED <<pc, exitCode, cause, config>>
  /\ UNCHANGED loopVars
  /\ UNCHANGED toolVars

Tools(queries) ==
  \/ \E args \in {<<>>, <<"q1">>, <<"q1", "q2">>}, now \in Clock :
       CallDateTime(args, now)
  \/ \E query \in queries, summary \in WikiOutcomes :
       CallWikipedia(query, summary)
  \/ \E query \in queries, client \in ClientOutcomes, create \in CreateOutcomes :
       CallSearch(query, client, create)

Next ==
  \/ \E ok \in BOOLEAN : Assemble(ok)
  \/ \E query \in Lines : ReadLine(query)
  \/ ReadEOF
  \/ Tools(Queries)
  \/ \E output \in Outputs : ExecutorReturn(output)
  \/ ExecutorRaise
  \/ PrintResponse

NextEnv ==
  \/ \E ok \in BOOLEAN : Assemble(ok)
  \/ \E query \in FewLines : ReadLine(query)
  \/ ReadEOF
  \/ Tools(Queries)
  \/ \E output \in Outputs : ExecutorReturn(output)
  \/ ExecutorRaise
  \/ PrintResponse

NextChange ==
  \/ \E ok \in BOOLEAN : Assemble(ok)
  \/ \E query \in FewLines : ReadLine(query)
  \/ ReadEOF
  \/ Tools({"q1"})
  \/ ExecutorReturn(<<"o1">>)
  \/ ExecutorRaise
  \/ PrintResponse
  \/ \E name \in EnvVars, value \in EnvValues \cup {Absent} : ChangeEnviron(name, value)

\* the loop, every setting present, every input line
Spec == Init /\ [][Next]_vars
\* the tools and the configuration, each setting present or absent
SpecEnv == InitAnyEnv /\ [][NextEnv]_vars
\* the tools and the configuration while os.environ changes
SpecChange == Init /\ [][NextChange]_vars

\* ------------------------------------------------------------ claims
KnowledgeBase == "Company Knowledge Base"

\* a line is a quit line when it is "quit" in some mix of letter casing
NonQuit(line) == line \notin QuitVariants

\* a search call failed: the client could not be built, a search setting was
\* absent, the service call raised, or the completion had no choices
SearchFailed(c) ==
  \/ c.external.kind = "raise"
  \/ \E k \in SearchVars : c.env[k] = Absent
  \/ c.create.kind = "raise"
  \/ c.create.kind = "return" /\ Len(c.create.choices) = 0

ToolFailed(c) ==
  \/ c.tool = "Wikipedia" /\ c.external.kind = "raise"
  \/ c.tool = KnowledgeBase /\ SearchFailed(c)

\* C1: a line that is "quit" in any letter casing is the last line read; the
\* loop is then terminated with the success outcome, the executor was not
\* invoked for that line, and nothing is read or invoked afterwards.
C1_QuitTerminates ==
  \A i \in 1..Len(linesRead) :
    linesRead[i] \in QuitVariants =>
      /\ i = Len(linesRead)
      /\ pc = "terminated"
      /\ exitCode = "success"
      /\ cause = "quit"
      /\ inFlight = 0
      /\ execInputs = SubSeq(linesRead, 1, i - 1)

C1_Witness ==
  /\ pc = "terminated"
  /\ Len(linesRead) = 2
  /\ linesRead[2] = <<"Q", "u", "I", "T">>
  /\ Len(execInputs) = 1

\* C2: the executor is invoked exactly once for every non-quit line, with
\* that line as its input and in reading order; every response that was
\* returned is printed exactly once, by its output field, and the loop is
\* back at the prompt only when everything returned has been printed.
C2_OncePerLine ==
  /\ execInputs = SelectSeq(linesRead, NonQuit)
  /\ Len(returned) <= Len(execInputs)
  /\ pc = "print" => returned = Append(printedLog, response.output)
  /\ pc # "print" => printedLog = returned
  /\ pc = "await" => Len(printedLog) = Len(execInputs)

C2_Witness ==
  /\ pc = "await"
  /\ linesRead = << <<>>, <<"q", "u", "i", "t", " ">> >>
  /\ Len(printedLog) = 2

\* C3: at most one executor call is in flight, it is in flight exactly while
\* main() is suspended on it, and a line is read only when no call is in
\* flight and every earlier call's result has been printed.
C3_Sequential ==
  /\ [](/\ inFlight \in {0, 1}
        /\ (inFlight = 1) <=> (pc = "invoking")
        /\ Len(execInputs) <= Len(printedLog) + 1)
  /\ [][Len(linesRead') > Len(linesRead) =>
          /\ inFlight = 0
          /\ Len(printedLog) = Len(execInputs)
          /\ Len(returned) = Len(execInputs)]_vars

C3_Witness ==
  /\ pc = "invoking"
  /\ inFlight = 1
  /\ Len(linesRead) = 2
  /\ Len(printedLog) = 1

\* C4: once the executor call has raised, the process is terminated with the
\* failure outcome, no line has been read since, the executor has been
\* invoked once per non-quit line and not again, and the failed line has no
\* printed response.
C4_ExecutorErrorFatal ==
  raisedAt # 0 =>
    /\ pc = "terminated"
    /\ exitCode = "failure"
    /\ Len(linesRead) = raisedAt
    /\ inFlight = 0
    /\ execInputs = SelectSeq(linesRead, NonQuit)
    /\ Len(printedLog) = Len(execInputs) - 1
    /\ printedLog = returned

C4_Witness ==
  /\ raisedAt = 2
  /\ cause = "executor"
  /\ Len(printedLog) = 1

\* C5: get_wikipedia_summary returns a string whatever wikipedia.summary
\* does: the summary itself, a string starting "Disambiguation error" on a
\* DisambiguationError, exactly "Page not found." on a PageError, and the
\* exception's message on any other exception.
C5_WikipediaNeverRaises ==
  lastCall.tool = "Wikipedia" =>
    LET o == lastCall.external
        r == lastCall.result
    IN /\ r.kind = "return"
       /\ r.value.type = "str"
       /\ o.kind = "return" => r.value = o.value
       /\ o.exc = "DisambiguationError" =>
            StartsWith(r.value.text, <<"Disambiguation error">>)
       /\ o.exc = "PageError" => r.value.text = <<"Page not found.">>
       /\ (o.kind = "raise" /\ o.exc \notin {"DisambiguationError", "PageError"}) =>
            r.value.text = o.msg

C5_Witness ==
  /\ lastCall.tool = "Wikipedia"
  /\ lastCall.external.exc = "PageError"
  /\ lastCall.result.kind = "return"

\* C6: search_company_docs returns whatever happens: on any failure (client
\* construction, an absent AZURE_SEARCH_* variable, a service error, no
\* choices) a string prefixed "Search error:", and without a failure the
\* content of the first choice.
C6_SearchNeverRaises ==
  lastCall.tool = KnowledgeBase =>
    LET r == lastCall.result
    IN /\ r.kind = "return"
       /\ SearchFailed(lastCall) =>
            /\ r.value.type = "str"
            /\ StartsWith(r.value.text, <<"Search error:">>)
       /\ ~SearchFailed(lastCall) => r.value = lastCall.create.choices[1]

C6_Witness ==
  /\ lastCall.tool = KnowledgeBase
  /\ lastCall.external.kind = "return"
  /\ lastCall.env["AZURE_SEARCH_KEY"] = Absent
  /\ lastCall.env["AZURE_SEARCH_ENDPOINT"] # Absent
  /\ lastCall.env["AZURE_SEARCH_INDEX"] # Absent
  /\ lastCall.result.kind = "return"

\* C7 (as stated): the error of an absent search setting is not converted to
\* a returned value; the search call raises and the process exits with the
\* failure outcome.
C7_MissingSettingUncaught ==
  ( /\ lastCall.tool = KnowledgeBase
    /\ lastCall.external.kind = "return"
    /\ \E k \in SearchVars : lastCall.env[k] = Absent )
  => ( lastCall.result.kind = "raise" /\ exitCode = "failure" )

\* C7 (amended): an absent model setting is loaded as None without an error;
\* an absent AZURE_SEARCH_* setting raises KeyError inside
\* search_company_docs, which returns "Search error: '<name>'" and does not
\* end the process; the process fails only from an error raised during
\* assembly, by input(), or out of the executor call.
C7_MissingSearchSettingReturned ==
  /\ pc = "assemble" =>
       /\ exitCode = "none"
       /\ environ["AZURE_OAI_KEY"] = Absent => config.openai_api_key = PyNone
       /\ environ["AZURE_OAI_DEPLOYMENT"] = Absent => config.deployment = PyNone
       /\ environ["AZURE_OAI_ENDPOINT"] = Absent => config.endpoint = PyNone
  /\ ( /\ lastCall.tool = KnowledgeBase
       /\ lastCall.external.kind = "return"
       /\ \E k \in SearchVars : lastCall.env[k] = Absent )
     => /\ \E k \in SearchVars :
             /\ lastCall.env[k] = Absent
             /\ lastCall.result = Ret(Str(<<"Search error:", " ", "'", k, "'">>))
        /\ cause # "tool"
  /\ exitCode = "failure" => cause \in {"assembly", "input", "executor"}

C7_Witness ==
  /\ pc = "await"
  /\ Len(printedLog) >= 1
  /\ lastCall.tool = KnowledgeBase
  /\ lastCall.external.kind = "return"
  /\ lastCall.env["AZURE_SEARCH_INDEX"] = Absent
  /\ config.openai_api_key = PyNone

\* C8: every tool call that returns, returns a text string.
C8_ToolsReturnText ==
  (lastCall.tool # "-" /\ lastCall.result.kind = "return") =>
    lastCall.result.value.type = "str"

\* C9 (as stated): a tool failure never ends the loop, and the loop ends
\* only by a quit line or by an exception raised out of the executor call.
C9_OnlyQuitOrExecutor ==
  /\ ToolFailed(lastCall) => (lastCall.result.kind = "return" /\ cause # "tool")
  /\ (pc = "terminated" /\ cause # "assembly") => cause \in {"quit", "executor"}

\* C9 (amended): a tool failure is returned to the executor as a value and
\* never ends the loop; the loop ends only by a quit line, by an exception
\* raised out of the executor call, or by the EOFError input() raises at end
\* of input.
C9_ToolFailureIsObservation ==
  /\ ToolFailed(lastCall) => (lastCall.result.kind = "return" /\ cause # "tool")
  /\ (pc = "terminated" /\ cause # "assembly") =>
       cause \in {"quit", "executor", "input"}

C9_Witness ==
  /\ pc = "await"
  /\ ToolFailed(lastCall)
  /\ Len(printedLog) = Len(execInputs)
  /\ Len(printedLog) >= 1

\* C10: the model settings never change after start-up, whatever happens to
\* os.environ; every search request carries the model settings captured at
\* start-up and the three search settings as os.environ held them at the
\* moment of that call.
C10_SearchSettingsReadAtCall ==
  /\ [][config' = config]_vars
  /\ [](lastCall.request.sent =>
          /\ lastCall.request.parameters =
               [ endpoint   |-> lastCall.env["AZURE_SEARCH_ENDPOINT"],
                 index_name |-> lastCall.env["AZURE_SEARCH_INDEX"],
                 key        |-> lastCall.env["AZURE_SEARCH_KEY"] ]
          /\ lastCall.request.azure_endpoint = config.endpoint
          /\ lastCall.request.api_key = config.openai_api_key
          /\ lastCall.request.model = config.deployment
          /\ lastCall.request.api_version = "2024-02-01")

C10_Witness ==
  /\ prevRequest.sent
  /\ lastCall.request.sent
  /\ envChanges >= 1
  /\ prevRequest.parameters # lastCall.request.parameters
  /\ prevRequest.parameters.key = "v1"
  /\ lastCall.request.parameters.key = "v2"
  /\ prevRequest.api_key = lastCall.request.api_key

====
